---- MODULE Spec2Model ----
(***************************************************************************)
(* DataConfigTool: the primary-key cache (utils/pk_cache.py) and the       *)
(* Excel -> YAML reconciliation (utils/sync.py) over the persisted tables  *)
(* (utils/storage.py, utils/models.py).                                    *)
(***************************************************************************)
EXTENDS Integers, Sequences, FiniteSets, TLC

VARIABLES
    tables,            \* persisted YAML: table id -> table.data (sequence of row dicts)
    group_pk_caches,   \* pk_cache._group_pk_caches : group -> (pk -> table_name)
    global_pk_cache,   \* pk_cache._global_pk_cache : pk -> <<group, table_name>>
    all_pk_pool,       \* pk_cache._all_pk_pool     : pk -> <<group, table_name>>
    call,              \* the last call of a pk_cache function and its arguments
    result,            \* how the last operation ended: "ok" or the error raised
    clean,             \* history: every call so far was a reconciliation that did
                       \* not raise a primary-key conflict
    caches,            \* caches._global_pk_cache and caches._group_pk_caches, the
                       \* mappings that models.py reads
    output,            \* the file at output_path of export_table: None or its content
    monitor,           \* the temporary workbook of an opened table and its monitor
                       \* thread (_monitor_table_file)
    threads            \* where each monitor thread is inside validate_primary_key

\* the exported file, the monitored workbook and the threads inside pk_cache
env == <<output, monitor, threads>>

vars == <<tables, group_pk_caches, global_pk_cache, all_pk_pool, call, result,
          clean, caches, output, monitor, threads>>

(***************************************************************************)
(* Bounds                                                                  *)
(***************************************************************************)
MaxPk == 2          \* primary keys typed into a cell or passed to the cache: 1..MaxPk
MaxRows == 2        \* data rows of an edited worksheet

(***************************************************************************)
(* Python values: None, int and str cells                                  *)
(***************************************************************************)
None == [kind |-> "None"]
IntV(n) == [kind |-> "int", v |-> n]
StrV(s) == [kind |-> "str", s |-> s]

\* dict helpers
EmptyDict == << >>
Put(d, k, v) == [x \in (DOMAIN d) \cup {k} |-> IF x = k THEN v ELSE d[x]]
Del(d, k) == [x \in (DOMAIN d) \ {k} |-> d[x]]
Get(d, k, default) == IF k \in DOMAIN d THEN d[k] ELSE default

(***************************************************************************)
(* utils/enums.py                                                          *)
(***************************************************************************)
TABLE == "table"
GROUP == "group"
GLOBAL == "global"
KeyType == {TABLE, GROUP, GLOBAL}

(***************************************************************************)
(* utils/pk_cache.py                                                       *)
(***************************************************************************)
Cache == [group_pk_caches |-> group_pk_caches,
          global_pk_cache |-> global_pk_cache,
          all_pk_pool |-> all_pk_pool]

clear_pk_caches == [group_pk_caches |-> EmptyDict,
                    global_pk_cache |-> EmptyDict,
                    all_pk_pool |-> EmptyDict]

\* "if group_name not in _group_pk_caches: _group_pk_caches[group_name] = {}"
EnsureGroup(c, group_name) ==
    IF group_name \in DOMAIN c.group_pk_caches
    THEN c
    ELSE [c EXCEPT !.group_pk_caches = Put(@, group_name, EmptyDict)]

InGroupCacheByPool(c, group_name, pk_value) ==
    /\ pk_value \in DOMAIN c.all_pk_pool
    /\ c.all_pk_pool[pk_value][1] = group_name

\* "if pk_value in _group_pk_caches[group_name]"
InGroupCache(c, group_name, pk_value) ==
    /\ group_name \in DOMAIN c.group_pk_caches
    /\ pk_value \in DOMAIN c.group_pk_caches[group_name]

InGlobalCacheNever(c, pk_value) == FALSE

\* "if pk_value in _global_pk_cache"
InGlobalCache(c, pk_value) == pk_value \in DOMAIN c.global_pk_cache

InAllPoolAnyScope(c, pk_value, key_type) == pk_value \in DOMAIN c.all_pk_pool

\* "if key_type == KeyType.GLOBAL and pk_value in _all_pk_pool"
InAllPool(c, pk_value, key_type) ==
    key_type = GLOBAL /\ pk_value \in DOMAIN c.all_pk_pool

RegisterGlobalAlways(c, group_name, table_name, pk_value, key_type) ==
    [group_pk_caches |->
        Put(c.group_pk_caches, group_name,
            Put(c.group_pk_caches[group_name], pk_value, table_name)),
     all_pk_pool |-> Put(c.all_pk_pool, pk_value, <<group_name, table_name>>),
     global_pk_cache |-> Put(c.global_pk_cache, pk_value, <<group_name, table_name>>)]

\* the three registrations at the end of validate_primary_key
Register(c, group_name, table_name, pk_value, key_type) ==
    [group_pk_caches |->
        Put(c.group_pk_caches, group_name,
            Put(c.group_pk_caches[group_name], pk_value, table_name)),
     all_pk_pool |-> Put(c.all_pk_pool, pk_value, <<group_name, table_name>>),
     global_pk_cache |->
        IF key_type = GLOBAL
        THEN Put(c.global_pk_cache, pk_value, <<group_name, table_name>>)
        ELSE c.global_pk_cache]

validate_primary_key_RegisterFirst(c, group_name, table_name, pk_value, key_type) ==
    LET c1 == EnsureGroup(c, group_name)
        c2 == Register(c1, group_name, table_name, pk_value, key_type)
    IN  [raised |-> \/ InGroupCache(c1, group_name, pk_value)
                    \/ InGlobalCache(c1, pk_value)
                    \/ InAllPool(c1, pk_value, key_type),
         cache |-> c2]

\* returns whether ValueError was raised and the cache the call leaves behind
validate_primary_key(c, group_name, table_name, pk_value, key_type) ==
    LET c1 == EnsureGroup(c, group_name) IN
    IF InGroupCache(c1, group_name, pk_value) THEN [raised |-> TRUE, cache |-> c1]
    ELSE IF InGlobalCache(c1, pk_value) THEN [raised |-> TRUE, cache |-> c1]
    ELSE IF InAllPool(c1, pk_value, key_type) THEN [raised |-> TRUE, cache |-> c1]
    ELSE [raised |-> FALSE,
          cache |-> Register(c1, group_name, table_name, pk_value, key_type)]

RemovePkKeepGlobal(c, group_name, pk_value, key_type) ==
    [group_pk_caches |->
        IF pk_value \in DOMAIN c.group_pk_caches[group_name]
        THEN Put(c.group_pk_caches, group_name,
                 Del(c.group_pk_caches[group_name], pk_value))
        ELSE c.group_pk_caches,
     all_pk_pool |-> Del(c.all_pk_pool, pk_value),
     global_pk_cache |-> c.global_pk_cache]

RemovePkKeepGroup(c, group_name, pk_value, key_type) ==
    [group_pk_caches |-> c.group_pk_caches,
     all_pk_pool |-> Del(c.all_pk_pool, pk_value),
     global_pk_cache |->
        IF key_type = GLOBAL /\ pk_value \in DOMAIN c.global_pk_cache
        THEN Del(c.global_pk_cache, pk_value)
        ELSE c.global_pk_cache]

\* one pass of "for pk_value in remove_list"
RemovePk(c, group_name, pk_value, key_type) ==
    [group_pk_caches |->
        IF pk_value \in DOMAIN c.group_pk_caches[group_name]
        THEN Put(c.group_pk_caches, group_name,
                 Del(c.group_pk_caches[group_name], pk_value))
        ELSE c.group_pk_caches,
     all_pk_pool |-> Del(c.all_pk_pool, pk_value),
     global_pk_cache |->
        IF key_type = GLOBAL /\ pk_value \in DOMAIN c.global_pk_cache
        THEN Del(c.global_pk_cache, pk_value)
        ELSE c.global_pk_cache]

Min(S) == CHOOSE x \in S : \A y \in S : x <= y

\* "for pk_value in remove_list": the passes commute, taken in ascending order
RECURSIVE RemoveAll(_, _, _, _)
RemoveAll(c, group_name, remove_list, key_type) ==
    IF remove_list = {} THEN c
    ELSE LET pk == Min(remove_list) IN
         RemoveAll(RemovePk(c, group_name, pk, key_type), group_name,
                   remove_list \ {pk}, key_type)

\* "for pk_value in add_lists: validate_primary_key(...)": CPython iterates a set
\* of small non-negative ints in ascending order; the first conflict propagates
\* and leaves the registrations made so far
RECURSIVE AddAll(_, _, _, _, _)
AddAll(c, group_name, table_name, add_lists, key_type) ==
    IF add_lists = {} THEN [raised |-> FALSE, cache |-> c]
    ELSE LET pk == Min(add_lists)
             r == validate_primary_key(c, group_name, table_name, pk, key_type)
         IN IF r.raised THEN r
            ELSE AddAll(r.cache, group_name, table_name, add_lists \ {pk}, key_type)

apply_pk_diff_Rollback(c, group_name, table_name, remove_list, add_lists, key_type) ==
    LET r == AddAll(RemoveAll(EnsureGroup(c, group_name), group_name, remove_list,
                              key_type),
                    group_name, table_name, add_lists, key_type)
    IN  IF r.raised THEN [raised |-> TRUE, cache |-> c] ELSE r

apply_pk_diff_AddFirst(c, group_name, table_name, remove_list, add_lists, key_type) ==
    LET r == AddAll(EnsureGroup(c, group_name), group_name, table_name, add_lists,
                    key_type)
    IN  IF r.raised THEN r
        ELSE [raised |-> FALSE,
              cache |-> RemoveAll(r.cache, group_name, remove_list, key_type)]

apply_pk_diff(c, group_name, table_name, remove_list, add_lists, key_type) ==
    AddAll(RemoveAll(EnsureGroup(c, group_name), group_name, remove_list, key_type),
           group_name, table_name, add_lists, key_type)

(***************************************************************************)
(* utils/models.py                                                         *)
(***************************************************************************)
\* int(value) on a str: the decimal strings that occur in the edited cells
IsDecimal(s) == s \in {"1", "7"}
IntOfStr(s) == IF s = "1" THEN 1 ELSE 7
\* str(value) on an int: the ints that occur in the cells of a string column
StrOfInt(n) == IF n = 1 THEN "1" ELSE "7"

\* ColumnDef.validate_value for a column of type "int" or "string"
validate_value(col, value) ==
    IF value = None \/ value = StrV("") THEN [raised |-> FALSE, value |-> None]
    ELSE IF col.type = "string"
    THEN [raised |-> FALSE,
          value |-> IF value.kind = "int" THEN StrV(StrOfInt(value.v)) ELSE value]
    ELSE IF value.kind = "int" THEN [raised |-> FALSE, value |-> value]
    ELSE IF IsDecimal(value.s) THEN [raised |-> FALSE, value |-> IntV(IntOfStr(value.s))]
    ELSE [raised |-> TRUE, value |-> None]

\* table.validate_all_primary_keys(): class ConfigTable (add_row,
\* _validate_primary_key, to_dict, from_dict) defines no such method, so the
\* attribute lookup raises AttributeError and the cache stays as it is
validate_all_primary_keys(t, data, c) == [raised |-> TRUE, cache |-> c]

(***************************************************************************)
(* The configuration directory: five tables in two groups                  *)
(***************************************************************************)
TableIds == {"A", "B", "C", "D", "E"}
Groups == {"g1", "g2"}

ColumnDef(name, type) == [name |-> name, type |-> type]

table_name(t) ==
    CASE t = "A" -> "tA" [] t = "B" -> "tB" [] t = "C" -> "tC" [] t = "D" -> "tD"
      [] t = "E" -> "tE"
group_name(t) ==
    CASE t = "A" -> "g1" [] t = "B" -> "g2" [] t = "C" -> "g1" [] t = "D" -> "g1"
      [] t = "E" -> "g2"
key_type(t) ==
    CASE t = "A" -> GROUP [] t = "B" -> GROUP [] t = "C" -> GLOBAL [] t = "D" -> GROUP
      [] t = "E" -> GROUP
columns(t) ==
    IF t = "A" THEN <<ColumnDef("id", "int"), ColumnDef("val", "int")>>
    ELSE IF t = "E" THEN <<ColumnDef("id", "int"), ColumnDef("name", "string")>>
    ELSE <<ColumnDef("id", "int")>>

(***************************************************************************)
(* The edited worksheet: row 1 (column names) and rows 4.. (data)          *)
(***************************************************************************)
PkCells == {None, StrV("x")} \cup {IntV(n) : n \in 1..MaxPk}
ValCells == {StrV(""), StrV("7")}

RowCells(t) ==
    {r \in [1..Len(columns(t)) -> PkCells \cup ValCells] :
        \A i \in 1..Len(columns(t)) : r[i] \in (IF i = 1 THEN PkCells ELSE ValCells)}

\* the temporary workbooks of each table as format_worktable lays them out, edited
Sheets ==
    [t \in TableIds |->
        {[header |-> [i \in 1..Len(columns(t)) |-> columns(t)[i].name], rows |-> rs] :
            rs \in UNION {[1..n -> RowCells(t)] : n \in 0..MaxRows}}]

(***************************************************************************)
(* utils/sync.py                                                           *)
(***************************************************************************)
Range(f) == {f[i] : i \in DOMAIN f}

\* "for col_idx in range(1, ws.max_column + 1): if col_name: append"
column_names(ws) == SelectSeq(ws.header, LAMBDA n : n # "")

IsEmptyCell(value) == value = None \/ value = StrV("")

AutoFillPkNoIncrement(new_datas, pk_column_name) ==
    IF new_datas # << >>
    THEN IntV(Get(new_datas[Len(new_datas)], pk_column_name, IntV(0)).v)
    ELSE IntV(1)

\* the pk that an empty primary-key cell receives
AutoFillPk(new_datas, pk_column_name) ==
    IF new_datas # << >>
    THEN IntV(Get(new_datas[Len(new_datas)], pk_column_name, IntV(0)).v + 1)
    ELSE IntV(1)

\* "for row_idx in range(4, ws.max_row + 1)": the rows from row_idx on, appended to
\* new_datas; raised when validate_value raised
RECURSIVE ReadRows(_, _, _, _)
ReadRows(t, ws, row_idx, new_datas) ==
    IF row_idx > Len(ws.rows) THEN [raised |-> FALSE, new_datas |-> new_datas]
    ELSE
    LET cells == ws.rows[row_idx]
        names == column_names(ws)
        pk_column_name == columns(t)[1].name
        vals == [i \in 1..Len(names) |-> validate_value(columns(t)[i], cells[i])]
        is_empty_row == \A i \in 1..Len(names) : IsEmptyCell(cells[i])
        row_data == [n \in Range(names) |->
                        vals[CHOOSE i \in 1..Len(names) :
                                /\ names[i] = n
                                /\ \A j \in 1..Len(names) : names[j] = n => j <= i].value]
        pk_value == Get(row_data, pk_column_name, None)
        filled == IF pk_value = None
                  THEN Put(row_data, pk_column_name, AutoFillPk(new_datas, pk_column_name))
                  ELSE row_data
    IN  IF \E i \in 1..Len(names) : vals[i].raised
        THEN [raised |-> TRUE, new_datas |-> new_datas]
        ELSE IF is_empty_row THEN ReadRows(t, ws, row_idx + 1, new_datas)
        ELSE ReadRows(t, ws, row_idx + 1, Append(new_datas, filled))

HasDuplicatePkNever(new_pk_list) == FALSE

HasTriplicatePk(new_pk_list) ==
    \E i, j, k \in 1..Len(new_pk_list) :
        /\ i < j /\ j < k /\ new_pk_list[i] # None
        /\ new_pk_list[i] = new_pk_list[j] /\ new_pk_list[j] = new_pk_list[k]

\* "counts = Counter(new_pk_list) ... if cnt > 1: raise"
HasDuplicatePk(new_pk_list) ==
    \E i, j \in 1..Len(new_pk_list) :
        i < j /\ new_pk_list[i] = new_pk_list[j] /\ new_pk_list[i] # None

\* the set of the int primary keys of a sequence of row dicts
PkSet(datas, pk_column_name) ==
    {Get(datas[i], pk_column_name, None).v :
        i \in {k \in 1..Len(datas) : Get(datas[k], pk_column_name, None) # None}}

AddedPksAll(old_pk_set, new_pk_set) == new_pk_set

\* "added_pks = new_pk_set - old_pk_set"
AddedPks(old_pk_set, new_pk_set) == new_pk_set \ old_pk_set

SortedByPk(datas, pk_column_name) ==
    CHOOSE s \in [1..Len(datas) -> Range(datas)] :
        /\ \A r \in Range(datas) : \E i \in 1..Len(datas) : s[i] = r
        /\ \A i, j \in 1..Len(datas) :
              i < j => s[i][pk_column_name].v <= s[j][pk_column_name].v

PersistSorted(tbls, t, new_datas, outcome) ==
    IF outcome = "ok"
    THEN [tbls EXCEPT ![t] = SortedByPk(new_datas, columns(t)[1].name)]
    ELSE tbls

PersistAlways(tbls, t, new_datas, outcome) == [tbls EXCEPT ![t] = new_datas]

\* "table.data = new_datas; save_table(table, table_path)", the last statements of
\* the function: reached only when nothing raised before
Persist(tbls, t, new_datas, outcome) ==
    IF outcome = "ok" THEN [tbls EXCEPT ![t] = new_datas] ELSE tbls

\* lines 86-112 of sync_excel_to_yaml_internal, after the rows were read: how the
\* call ends, the stored rows and the cache it leaves, and its call of apply_pk_diff
Reconcile(t, read, tbls, c) ==
    LET pk_column_name == columns(t)[1].name
        new_datas == read.new_datas
        new_pk_list == [i \in 1..Len(new_datas) |-> new_datas[i][pk_column_name]]
        old_pk_set == PkSet(tbls[t], pk_column_name)
        new_pk_set == PkSet(new_datas, pk_column_name)
        deleted_pks == old_pk_set \ new_pk_set
        added_pks == AddedPks(old_pk_set, new_pk_set)
        diff == apply_pk_diff(c, group_name(t), table_name(t), deleted_pks, added_pks,
                              key_type(t))
        outcome == IF read.raised THEN "coercion"
                   ELSE IF HasDuplicatePk(new_pk_list) THEN "duplicate"
                   ELSE IF diff.raised THEN "conflict"
                   ELSE "ok"
    IN  [result |-> outcome,
         tables |-> Persist(tbls, t, new_datas, outcome),
         cache |-> IF outcome \in {"coercion", "duplicate"} THEN c ELSE diff.cache,
         call |-> IF outcome \in {"coercion", "duplicate"}
                  THEN [op |-> "none"]
                  ELSE [op |-> "apply_pk_diff", group_name |-> group_name(t),
                        table_name |-> table_name(t), remove_list |-> deleted_pks,
                        add_lists |-> added_pks, key_type |-> key_type(t)]]

\* the call on table t with worksheet ws, from stored rows tbls and cache c
sync_excel_to_yaml_internal(t, ws, tbls, c) ==
    Reconcile(t, ReadRows(t, ws, 1, << >>), tbls, c)

\* ReadRows of every edited worksheet (it depends on the worksheet alone), tabulated
ReadSheet == [t \in TableIds |-> [ws \in Sheets[t] |-> ReadRows(t, ws, 1, << >>)]]

(***************************************************************************)
(* utils/binary_exporter.py                                                *)
(* Bytes are 0..255, a buffer is a sequence of bytes, and a type string is *)
(* the sequence of its characters, so that the slices of _write_value are  *)
(* computed.  float columns are not among the exported columns.            *)
(***************************************************************************)
BoolV(b) == [kind |-> "bool", b |-> b]
ListV(items) == [kind |-> "list", items |-> items]
\* a dict in insertion order: the sequence of its <<key, value>> items
DictV(items) == [kind |-> "dict", items |-> items]

TInt == <<"i", "n", "t">>
TString == <<"s", "t", "r", "i", "n", "g">>
TBool == <<"b", "o", "o", "l">>
TListPrefix == <<"L", "i", "s", "t">>
TDictPrefix == <<"D", "i", "c", "t", "i", "o", "n", "a", "r", "y">>
\* "List<T>" and "Dictionary<K,V>"
TList(T) == TListPrefix \o <<"<">> \o T \o <<">">>
TDict(K, V) == TDictPrefix \o <<"<">> \o K \o <<",">> \o V \o <<">">>

\* s.startswith(prefix)
StartsWith(s, prefix) ==
    Len(s) >= Len(prefix) /\ SubSeq(s, 1, Len(prefix)) = prefix

\* the Python slice s[start:-1]
SliceToLast(s, start) == SubSeq(s, start + 1, Len(s) - 1)

\* s.split(","): the pieces between the commas
RECURSIVE Split(_)
Split(s) ==
    IF \A i \in 1..Len(s) : s[i] # ","
    THEN <<s>>
    ELSE LET i == CHOOSE k \in 1..Len(s) : s[k] = "," /\ \A j \in 1..(k - 1) : s[j] # ","
         IN  <<SubSeq(s, 1, i - 1)>> \o Split(SubSeq(s, i + 1, Len(s)))

\* struct.pack("<B", n)
pack_B(n) == <<n>>
\* struct.pack("<I", n), 0 <= n
pack_I(n) ==
    <<n % 256, (n \div 256) % 256, (n \div 65536) % 256, (n \div 16777216) % 256>>
\* struct.pack("<i", n): two's complement, little-endian
pack_i(n) ==
    IF n >= 0 THEN pack_I(n)
    ELSE LET m == (n + 2147483647) + 1
         IN  <<m % 256, (m \div 256) % 256, (m \div 65536) % 256,
               ((m \div 16777216) % 256) + 128>>

\* str(value) of the ints and strings that are exported
PyStr(value) ==
    IF value.kind = "str" THEN value.s
    ELSE CASE value.v = 1 -> "1" [] value.v = 2 -> "2" [] value.v = 300 -> "300"
           [] value.v = -1 -> "-1"

\* s.encode("utf-8") of the strings that are exported (all ASCII)
encode_utf8(s) ==
    CASE s = "" -> << >>
      [] s = "ab" -> <<97, 98>>
      [] s = "1" -> <<49>>
      [] s = "2" -> <<50>>
      [] s = "300" -> <<51, 48, 48>>
      [] s = "-1" -> <<45, 49>>

write_string(s) == pack_I(Len(encode_utf8(s))) \o encode_utf8(s)

RECURSIVE write_value(_, _)

\* "for item in lst: _write_value(buffer, item, value_type)"
RECURSIVE WriteItems(_, _)
WriteItems(lst, value_type) ==
    IF lst = << >> THEN << >>
    ELSE write_value(Head(lst), value_type) \o WriteItems(Tail(lst), value_type)

write_list(lst, value_type) == pack_I(Len(lst)) \o WriteItems(lst, value_type)

\* "for key, value in d.items(): _write_value(key, key_type); _write_value(value, ...)"
RECURSIVE WritePairs(_, _, _)
WritePairs(items, k_type, value_type) ==
    IF items = << >> THEN << >>
    ELSE write_value(Head(items)[1], k_type) \o write_value(Head(items)[2], value_type)
            \o WritePairs(Tail(items), k_type, value_type)

write_dict(d, kv_type) == pack_I(Len(d)) \o WritePairs(d, kv_type[1], kv_type[2])

\* BinaryExporter._write_value: the bytes written for value under type value_type
write_value(value, value_type) ==
    IF value = None THEN pack_B(0)
    ELSE pack_B(1) \o
         (IF value_type = TInt THEN pack_i(value.v)
          ELSE IF value_type = TString THEN write_string(PyStr(value))
          ELSE IF value_type = TBool THEN pack_B(IF value.b THEN 1 ELSE 0)
          ELSE IF StartsWith(value_type, TListPrefix)
               THEN write_list(value.items, SliceToLast(value_type, 4))
          ELSE IF StartsWith(value_type, TDictPrefix)
               THEN write_dict(value.items, Split(SliceToLast(value_type, 11)))
          ELSE write_string(PyStr(value)))

\* "for col in table.columns: _write_value(buffer, row.get(col.name), col.type)"
RECURSIVE WriteRow(_, _)
WriteRow(row, cols) ==
    IF cols = << >> THEN << >>
    ELSE write_value(Get(row, Head(cols).name, None), Head(cols).type)
            \o WriteRow(row, Tail(cols))

RECURSIVE WriteRows(_, _)
WriteRows(data, cols) ==
    IF data = << >> THEN << >>
    ELSE WriteRow(Head(data), cols) \o WriteRows(Tail(data), cols)

\* BinaryExporter._serialize_table
serialize_table(cols, data) == pack_I(Len(data)) \o WriteRows(data, cols)

\* the exported tables: a key column and one column of each type
ExportTypes ==
    {TInt, TBool, TString, TList(TInt), TList(TString), TDict(TInt, TString)}

ValuesOf(type) ==
    {None} \cup
    (CASE type = TInt -> {IntV(-1), IntV(300)}
       [] type = TBool -> {BoolV(TRUE), BoolV(FALSE)}
       [] type = TString -> {StrV(""), StrV("ab")}
       [] type = TList(TInt) -> {ListV(<< >>), ListV(<<IntV(1), IntV(2)>>)}
       [] type = TList(TString) -> {ListV(<<StrV("ab")>>)}
       [] type = TDict(TInt, TString) ->
              {DictV(<< >>), DictV(<<<<IntV(1), StrV("ab")>>>>)})

ExportColumns(type) == <<ColumnDef("id", TInt), ColumnDef("x", type)>>

ExportRows(type) ==
    UNION {[1..n -> {[id |-> IntV(k), x |-> v] : k \in 1..MaxPk, v \in ValuesOf(type)}] :
              n \in 0..MaxRows}

(***************************************************************************)
(* The program: monitor threads reconcile saved worksheets                 *)
(***************************************************************************)
\* the tables opened at the same time, each with a monitor thread of its own
ThreadTables == {"C", "D"}

Init ==
    /\ tables = [t \in TableIds |-> << >>]
    /\ group_pk_caches = EmptyDict
    /\ global_pk_cache = EmptyDict
    /\ all_pk_pool = EmptyDict
    /\ call = [op |-> "none"]
    /\ result = "ok"
    /\ clean = TRUE
    /\ caches = [global_pk_cache |-> EmptyDict, group_pk_caches |-> EmptyDict]
    /\ output = None
    /\ monitor = [exists |-> FALSE, ws |-> None, mtime |-> 0, alive |-> FALSE,
                  last_mtime |-> 0, attempted |-> 0]
    /\ threads = [th \in ThreadTables |-> [pc |-> "idle", pk_value |-> 0]]

SetCache(c) ==
    /\ group_pk_caches' = c.group_pk_caches
    /\ global_pk_cache' = c.global_pk_cache
    /\ all_pk_pool' = c.all_pk_pool

\* _monitor_table_file sees a saved worksheet of table t and calls sync_excel_to_yaml
Sync(t, ws) ==
    LET r == Reconcile(t, ReadSheet[t][ws], tables, Cache) IN
    /\ tables' = r.tables
    /\ SetCache(r.cache)
    /\ call' = r.call
    /\ result' = r.result
    /\ clean' = (clean /\ r.result # "conflict")
    /\ UNCHANGED <<caches, env>>

\* the worksheets of tables A and C are open and edited
OpenTables == {"A", "C"}

Next == \E t \in OpenTables : \E ws \in Sheets[t] : Sync(t, ws)

Spec == Init /\ [][Next]_vars

\* the worksheets of the one-column tables B, C and D are open and edited
ScopeTables == {"B", "C", "D"}

NextScopes == \E t \in ScopeTables : \E ws \in Sheets[t] : Sync(t, ws)

SpecScopes == Init /\ [][NextScopes]_vars

\* the worksheet of table E (id: int, name: string) with row 1 edited as well: a
\* column renamed, removed or moved; the key column, when present, stays first
Headers == {<<"id", "name">>, <<"id", "note">>, <<"id">>, <<"name">>}
HeaderCells == {None, IntV(1), StrV("x")}

HeaderSheets ==
    UNION {{[header |-> h, rows |-> rs] :
                rs \in UNION {[1..n -> [1..Len(h) -> HeaderCells]] : n \in 0..MaxRows}} :
           h \in Headers}

\* ReadRows of every such worksheet, tabulated
ReadHeaderSheet == [ws \in HeaderSheets |-> ReadRows("E", ws, 1, << >>)]

\* _monitor_table_file sees a saved worksheet of table E
SyncColumns(ws) ==
    LET r == Reconcile("E", ReadHeaderSheet[ws], tables, Cache) IN
    /\ tables' = r.tables
    /\ SetCache(r.cache)
    /\ call' = [op |-> "sync_excel_to_yaml_internal", ws |-> ws]
    /\ result' = r.result
    /\ clean' = (clean /\ r.result # "conflict")
    /\ UNCHANGED <<caches, env>>

NextColumns == \E ws \in HeaderSheets : SyncColumns(ws)

SpecColumns == Init /\ [][NextColumns]_vars

(***************************************************************************)
(* utils/models.py: ConfigTable.add_row, and the utils/caches.py mappings  *)
(* it reads                                                                *)
(***************************************************************************)
\* caches.add_group_pk(group_name, pk_value, table_name, column_name)
add_group_pk(c, g, pk_value, n, column_name) ==
    [c EXCEPT !.group_pk_caches =
        Put(@, g, Put(Get(@, g, EmptyDict), pk_value, <<n, column_name>>))]

\* caches.add_global_pk(pk_value, table_name, group_name, column_name)
add_global_pk(c, pk_value, n, g, column_name) ==
    [c EXCEPT !.global_pk_cache = Put(@, pk_value, <<n, g, column_name>>)]

\* "for col in self.columns: validated_row[col.name] = col.validate_value(...)"
ValidatedRow(t, row_data) ==
    [n \in {columns(t)[i].name : i \in 1..Len(columns(t))} |->
        validate_value(CHOOSE col \in Range(columns(t)) : col.name = n,
                       Get(row_data, n, None))]

\* "for existing_row in self.data: if existing_row.get(pk_column.name) == pk_value"
InTable(data, pk_column_name, pk_value) ==
    \E i \in 1..Len(data) : Get(data[i], pk_column_name, None) = pk_value

\* ConfigTable._validate_primary_key: whether it raises ValueError
RaisesPkConflict(t, data, row, c) ==
    LET pk_column_name == columns(t)[1].name
        pk_value == Get(row, pk_column_name, None)
    IN  /\ pk_value # None /\ pk_value # StrV("")
        /\ \/ InTable(data, pk_column_name, pk_value)
           \/ /\ key_type(t) \in {GROUP, GLOBAL}
              /\ group_name(t) \in DOMAIN c.group_pk_caches
              /\ pk_value.v \in DOMAIN c.group_pk_caches[group_name(t)]
           \/ /\ key_type(t) = GLOBAL
              /\ pk_value.v \in DOMAIN c.global_pk_cache

\* ConfigTable.add_row: how it ends and the rows of the table afterwards
add_row(t, data, row_data, c) ==
    LET validated == ValidatedRow(t, row_data)
        row == [n \in DOMAIN validated |-> validated[n].value]
    IN  IF \E n \in DOMAIN validated : validated[n].raised
        THEN [result |-> "coercion", data |-> data]
        ELSE IF RaisesPkConflict(t, data, row, c)
        THEN [result |-> "conflict", data |-> data]
        ELSE [result |-> "ok", data |-> Append(data, row)]

\* table.add_row(row_data) on the table object of t
AddRowCall(t, row_data) ==
    LET r == add_row(t, tables[t], row_data, caches) IN
    /\ Len(tables[t]) < MaxRows
    /\ tables' = [tables EXCEPT ![t] = r.data]
    /\ call' = [op |-> "add_row", table |-> t, row_data |-> row_data]
    /\ result' = r.result
    /\ UNCHANGED <<group_pk_caches, global_pk_cache, all_pk_pool, clean, caches, env>>

AddGroupPkCall(t, pk_value) ==
    /\ caches' = add_group_pk(caches, group_name(t), pk_value, table_name(t),
                              columns(t)[1].name)
    /\ call' = [op |-> "add_group_pk"]
    /\ result' = "ok"
    /\ UNCHANGED <<tables, group_pk_caches, global_pk_cache, all_pk_pool, clean, env>>

AddGlobalPkCall(t, pk_value) ==
    /\ caches' = add_global_pk(caches, pk_value, table_name(t), group_name(t),
                               columns(t)[1].name)
    /\ call' = [op |-> "add_global_pk"]
    /\ result' = "ok"
    /\ UNCHANGED <<tables, group_pk_caches, global_pk_cache, all_pk_pool, clean, env>>

\* rows are added to the tables C (GLOBAL) and D (GROUP) of group g1
AddRowTables == {"C", "D"}
AddRowInputs == {[id |-> v] : v \in PkCells} \cup {EmptyDict}

NextModels ==
    \/ \E t \in AddRowTables : \E row_data \in AddRowInputs : AddRowCall(t, row_data)
    \/ \E t \in AddRowTables : \E pk \in 1..MaxPk : AddGroupPkCall(t, pk)
    \/ \E t \in AddRowTables : \E pk \in 1..MaxPk : AddGlobalPkCall(t, pk)

SpecModels == Init /\ [][NextModels]_vars

(***************************************************************************)
(* Export: tables are serialized for the binary file                       *)
(***************************************************************************)
\* BinaryExporter.export_table up to the encryption: the plaintext of the table
ExportCall(type, data) ==
    /\ call' = [op |-> "_serialize_table", columns |-> ExportColumns(type),
                data |-> data, plaintext |-> serialize_table(ExportColumns(type), data)]
    /\ result' = "ok"
    /\ UNCHANGED <<tables, group_pk_caches, global_pk_cache, all_pk_pool, clean, caches, env>>

\* _write_value on one value of a column
WriteValueCall(type, value) ==
    /\ call' = [op |-> "_write_value", value |-> value, value_type |-> type,
                buffer |-> write_value(value, type)]
    /\ result' = "ok"
    /\ UNCHANGED <<tables, group_pk_caches, global_pk_cache, all_pk_pool, clean, caches, env>>

NextCodec ==
    \/ \E type \in ExportTypes : \E data \in ExportRows(type) : ExportCall(type, data)
    \/ \E type \in ExportTypes : \E value \in ValuesOf(type) : WriteValueCall(type, value)

SpecCodec == Init /\ [][NextCodec]_vars

(***************************************************************************)
(* utils/binary_exporter.py: export_table and the range of struct.pack("<i") *)
(* A Python int is unbounded.  The ints of an exported table are written    *)
(* here as hi * 65536 + lo with 0 <= lo < 65536, so that values on both     *)
(* sides of -2^31 and 2^31 - 1 are among them.                              *)
(***************************************************************************)
IntW(hi, lo) == [kind |-> "int", hi |-> hi, lo |-> lo]

\* struct.pack("<i", n) raises struct.error unless -2^31 <= n <= 2^31 - 1
InRangeI(value) == value.hi >= -32768 /\ value.hi <= 32767

\* the int a value in range stands for
AsInt(value) ==
    IF value # None /\ "hi" \in DOMAIN value
    THEN IntV(value.hi * 65536 + value.lo)
    ELSE value

\* _serialize_table raises when _write_value reaches an int that "<i" cannot hold
RaisesStructError(cols, data) ==
    \E i \in 1..Len(data) : \E c \in 1..Len(cols) :
        LET value == Get(data[i], cols[c].name, None) IN
        /\ cols[c].type = TInt
        /\ value # None /\ "hi" \in DOMAIN value
        /\ ~InRangeI(value)

\* padder.update(data) + padder.finalize() of PKCS7(128)
RECURSIVE Repeat(_, _)
Repeat(b, n) == IF n = 0 THEN << >> ELSE <<b>> \o Repeat(b, n - 1)
pkcs7_pad(data) == data \o Repeat(16 - (Len(data) % 16), 16 - (Len(data) % 16))

\* _encrypt_aes_cbc: the 16 random bytes of the IV and the AES-CBC encryption of the
\* padded data, kept as what it encrypts; its length is 16 + Len(padded)
encrypt_aes_cbc(data, encryption_key) ==
    [iv |-> "urandom", key |-> encryption_key, padded |-> pkcs7_pad(data)]
EncryptedLen(encrypted) == 16 + Len(encrypted.padded)

DEFAULT_KEY == "your-32-byte-secret-key-here!123"

\* a variant that opens the output file before it serializes the table
export_table_OpenFirst(cols, data, file) ==
    IF RaisesStructError(cols, data)
    THEN [raised |-> TRUE, opened |-> TRUE, file |-> << >>]
    ELSE LET data_buffer ==
                 serialize_table(cols,
                     [i \in 1..Len(data) |->
                         [k \in DOMAIN data[i] |-> AsInt(data[i][k])]])
             encrypted_data == encrypt_aes_cbc(data_buffer, DEFAULT_KEY)
         IN  [raised |-> FALSE, opened |-> TRUE,
              file |-> [magic |-> "SHET",
                        length |-> pack_I(EncryptedLen(encrypted_data)),
                        data |-> encrypted_data]]

\* BinaryExporter.export_table on a table with columns cols and rows data, the
\* file at output_path holding file before the call: _serialize_table runs first
\* (line 49), open(output_path, "wb") after it (line 62)
export_table(cols, data, file) ==
    IF RaisesStructError(cols, data)
    THEN [raised |-> TRUE, opened |-> FALSE, file |-> file]
    ELSE LET data_buffer ==
                 serialize_table(cols,
                     [i \in 1..Len(data) |->
                         [k \in DOMAIN data[i] |-> AsInt(data[i][k])]])
             encrypted_data == encrypt_aes_cbc(data_buffer, DEFAULT_KEY)
         IN  [raised |-> FALSE, opened |-> TRUE,
              file |-> [magic |-> "SHET",
                        length |-> pack_I(EncryptedLen(encrypted_data)),
                        data |-> encrypted_data]]

\* the exported ints: around both ends of the range of "<i", and zero
WideInts == {IntW(hi, lo) : hi \in {-32769, -32768, 0, 32767, 32768}, lo \in {0, 65535}}

\* the rows of a table with columns id: int and x: int
WideRows ==
    UNION {[1..n -> {[id |-> IntV(1), x |-> v] : v \in WideInts \cup {None}}] :
              n \in 0..MaxRows}

ExportTableCall(data) ==
    LET r == export_table(ExportColumns(TInt), data, output) IN
    /\ output' = r.file
    /\ call' = [op |-> "export_table", columns |-> ExportColumns(TInt), data |-> data,
                opened |-> r.opened]
    /\ result' = IF r.raised THEN "struct.error" ELSE "ok"
    /\ UNCHANGED <<tables, group_pk_caches, global_pk_cache, all_pk_pool, clean, caches,
                   monitor, threads>>

NextExport == \E data \in WideRows : ExportTableCall(data)

SpecExport == Init /\ [][NextExport]_vars

(***************************************************************************)
(* utils/storage.py                                                        *)
(***************************************************************************)
\* get_all_tables(): the table files, group by group
get_all_tables == <<"A", "C", "D", "B", "E">>

\* "for table_file in table_files: try: ... table.validate_all_primary_keys()
\*  except Exception as e: conflicts.append(error_msg)"
RECURSIVE ValidateTables(_, _, _, _)
ValidateTables(table_files, tbls, c, conflicts) ==
    IF table_files = << >> THEN [conflicts |-> conflicts, cache |-> c]
    ELSE LET t == Head(table_files)
             r == validate_all_primary_keys(t, tbls[t], c)
         IN  ValidateTables(Tail(table_files), tbls, r.cache,
                            IF r.raised THEN Append(conflicts, t) ELSE conflicts)

\* returns the conflicts list (the tables whose validation raised) and the cache
load_all_tables_for_validation(tbls) ==
    ValidateTables(get_all_tables, tbls, clear_pk_caches, << >>)

\* the rows a YAML file of a one-column table can hold
YamlRows == UNION {[1..n -> {[id |-> IntV(k)] : k \in 1..MaxPk}] : n \in 0..MaxRows}

LoadAllCall ==
    LET r == load_all_tables_for_validation(tables) IN
    /\ SetCache(r.cache)
    /\ call' = [op |-> "load_all_tables_for_validation", conflicts |-> r.conflicts]
    /\ result' = "ok"
    /\ UNCHANGED <<tables, clean, caches, env>>

\* table.validate_all_primary_keys() on the loaded table t
ValidateAllCall(t) ==
    LET r == validate_all_primary_keys(t, tables[t], Cache) IN
    /\ SetCache(r.cache)
    /\ call' = [op |-> "validate_all_primary_keys", table |-> t]
    /\ result' = IF r.raised THEN "AttributeError" ELSE "ok"
    /\ UNCHANGED <<tables, clean, caches, env>>

\* load_table(table_path): reads the YAML file and builds the ConfigTable
LoadTableCall(t) ==
    /\ call' = [op |-> "load_table", table |-> t, data |-> tables[t]]
    /\ result' = "ok"
    /\ UNCHANGED <<tables, group_pk_caches, global_pk_cache, all_pk_pool, clean, caches, env>>

\* save_table(table, table_path): writes table.to_dict() to the YAML file
SaveTableCall(t, data) ==
    /\ tables' = [tables EXCEPT ![t] = data]
    /\ call' = [op |-> "save_table", table |-> t, data |-> data]
    /\ result' = "ok"
    /\ UNCHANGED <<group_pk_caches, global_pk_cache, all_pk_pool, clean, caches, env>>

\* the tables C (GLOBAL) and D (GROUP) of group g1 are edited, saved and loaded
StorageTables == {"C", "D"}

NextStorage ==
    \/ \E t \in StorageTables : \E ws \in Sheets[t] : Sync(t, ws)
    \/ LoadAllCall
    \/ \E t \in StorageTables : ValidateAllCall(t)
    \/ \E t \in StorageTables : LoadTableCall(t)
    \/ \E t \in StorageTables : \E data \in YamlRows : SaveTableCall(t, data)

SpecStorage == Init /\ [][NextStorage]_vars

(***************************************************************************)
(* The cache driven directly through its functions                         *)
(***************************************************************************)
\* the callers: the (group, table) pairs of tables A, B and C
Callers == {<<group_name(t), table_name(t)>> : t \in {"A", "B", "C"}}
PkValues == 1..MaxPk

ValidateCall(g, n, pk, kt) ==
    LET r == validate_primary_key(Cache, g, n, pk, kt) IN
    /\ SetCache(r.cache)
    /\ call' = [op |-> "validate_primary_key", group_name |-> g, table_name |-> n,
                pk_value |-> pk, key_type |-> kt]
    /\ result' = IF r.raised THEN "conflict" ELSE "ok"
    /\ UNCHANGED <<tables, clean, caches, env>>

ApplyDiffCall(g, n, remove_list, add_lists, kt) ==
    LET r == apply_pk_diff(Cache, g, n, remove_list, add_lists, kt) IN
    /\ SetCache(r.cache)
    /\ call' = [op |-> "apply_pk_diff"]
    /\ result' = IF r.raised THEN "conflict" ELSE "ok"
    /\ UNCHANGED <<tables, clean, caches, env>>

ClearCall ==
    /\ SetCache(clear_pk_caches)
    /\ call' = [op |-> "clear_pk_caches"]
    /\ result' = "ok"
    /\ UNCHANGED <<tables, clean, caches, env>>

NextCache ==
    \/ \E gn \in Callers, pk \in PkValues, kt \in KeyType :
            ValidateCall(gn[1], gn[2], pk, kt)
    \/ \E gn \in Callers, kt \in KeyType :
       \E remove_list \in SUBSET PkValues, add_lists \in SUBSET PkValues :
            ApplyDiffCall(gn[1], gn[2], remove_list, add_lists, kt)
    \/ ClearCall

SpecCache == Init /\ [][NextCache]_vars

\* apply_pk_diff called for tables A (group g1) and B (group g2), as GROUP or as
\* GLOBAL tables, with the arguments of the call recorded
DiffCallers == {<<group_name(t), table_name(t)>> : t \in {"A", "B"}}
DiffKeyTypes == {GROUP, GLOBAL}

ApplyDiffRecorded(g, n, remove_list, add_lists, kt) ==
    LET r == apply_pk_diff(Cache, g, n, remove_list, add_lists, kt) IN
    /\ SetCache(r.cache)
    /\ call' = [op |-> "apply_pk_diff", group_name |-> g, table_name |-> n,
                remove_list |-> remove_list, add_lists |-> add_lists, key_type |-> kt]
    /\ result' = IF r.raised THEN "conflict" ELSE "ok"
    /\ UNCHANGED <<tables, clean, caches, env>>

NextDiff ==
    \E gn \in DiffCallers, kt \in DiffKeyTypes :
    \E remove_list \in SUBSET PkValues, add_lists \in SUBSET PkValues :
        ApplyDiffRecorded(gn[1], gn[2], remove_list, add_lists, kt)

SpecDiff == Init /\ [][NextDiff]_vars

(***************************************************************************)
(* Monitor threads inside pk_cache.  open_selected_item starts one daemon   *)
(* thread per opened table; each reaches validate_primary_key through       *)
(* sync_excel_to_yaml and apply_pk_diff.  pk_cache.py takes no lock, and    *)
(* the interpreter may switch threads between the statements of a function: *)
(* the checks of validate_primary_key (lines 42-52) and its registrations   *)
(* (lines 54-58) are separate steps of a thread.                            *)
(***************************************************************************)
\* the three membership tests of validate_primary_key
PkConflict(c, g, pk_value, kt) ==
    \/ InGroupCache(c, g, pk_value)
    \/ InGlobalCache(c, pk_value)
    \/ InAllPool(c, pk_value, kt)

\* the thread of table t enters validate_primary_key for key pk and runs its checks
ThreadCheck(t, pk) ==
    LET c1 == EnsureGroup(Cache, group_name(t))
        raised == PkConflict(c1, group_name(t), pk, key_type(t))
    IN  /\ threads[t].pc = "idle"
        /\ SetCache(c1)
        /\ threads' = IF raised THEN threads
                      ELSE [threads EXCEPT ![t] = [pc |-> "checked", pk_value |-> pk]]
        /\ call' = [op |-> "validate_primary_key", thread |-> t, pk_value |-> pk,
                    step |-> "check"]
        /\ result' = IF raised THEN "conflict" ELSE "pending"
        /\ UNCHANGED <<tables, clean, caches, output, monitor>>

\* the thread of table t, its checks passed, registers the key and returns
ThreadRegister(t) ==
    /\ threads[t].pc = "checked"
    /\ SetCache(Register(Cache, group_name(t), table_name(t), threads[t].pk_value,
                         key_type(t)))
    /\ threads' = [threads EXCEPT ![t] = [pc |-> "idle", pk_value |-> 0]]
    /\ call' = [op |-> "validate_primary_key", thread |-> t,
                pk_value |-> threads[t].pk_value, step |-> "register"]
    /\ result' = "ok"
    /\ UNCHANGED <<tables, clean, caches, output, monitor>>

\* the thread of table t removes a key of its table in the removal loop of
\* apply_pk_diff
ThreadRemove(t, pk) ==
    /\ threads[t].pc = "idle"
    /\ InGroupCache(Cache, group_name(t), pk)
    /\ group_pk_caches[group_name(t)][pk] = table_name(t)
    /\ SetCache(apply_pk_diff(Cache, group_name(t), table_name(t), {pk}, {},
                              key_type(t)).cache)
    /\ call' = [op |-> "apply_pk_diff", thread |-> t, pk_value |-> pk,
                step |-> "remove"]
    /\ result' = "ok"
    /\ UNCHANGED <<tables, clean, caches, output, monitor, threads>>

NextThreads ==
    \E t \in ThreadTables :
        \/ \E pk \in PkValues : ThreadCheck(t, pk)
        \/ ThreadRegister(t)
        \/ \E pk \in PkValues : ThreadRemove(t, pk)

SpecThreads == Init /\ [][NextThreads]_vars

(***************************************************************************)
(* ui/file_tree.py: _open_table_async and the loop of _monitor_table_file   *)
(* on the temporary workbook of one opened table.  mtime counts the saves   *)
(* of the file; monitor.attempted is history: the mtime of the last version *)
(* that was written from the YAML or handed to sync_excel_to_yaml.          *)
(***************************************************************************)
MaxMtime == 4
MonitoredTable == "D"

\* the worksheet format_worktable writes for the stored rows of table t
AsSheet(t) ==
    [header |-> [c \in 1..Len(columns(t)) |-> columns(t)[c].name],
     rows |-> [i \in 1..Len(tables[t]) |->
                 [c \in 1..Len(columns(t)) |-> tables[t][i][columns(t)[c].name]]]]

\* "except ValueError ... break" and "except Exception ... break": the loop and with
\* it the thread end
AfterSyncRaised(m) == [m EXCEPT !.alive = FALSE]

\* double click on the table while no monitor thread of it runs: create_temp_excel
\* writes the workbook from the stored rows unless the file exists, and the thread
\* starts with last_mtime = the mtime of the file
OpenTable ==
    /\ ~monitor.alive
    /\ monitor.exists \/ monitor.mtime < MaxMtime
    /\ monitor' =
          IF monitor.exists
          THEN [monitor EXCEPT !.alive = TRUE, !.last_mtime = monitor.mtime]
          ELSE [exists |-> TRUE, ws |-> AsSheet(MonitoredTable),
                mtime |-> monitor.mtime + 1, alive |-> TRUE,
                last_mtime |-> monitor.mtime + 1, attempted |-> monitor.mtime + 1]
    /\ call' = [op |-> "_open_table_async"]
    /\ result' = "ok"
    /\ UNCHANGED <<tables, group_pk_caches, global_pk_cache, all_pk_pool, clean, caches,
                   output, threads>>

\* the user edits the workbook in Excel and saves it
SaveWorkbook(ws) ==
    /\ monitor.exists
    /\ monitor.mtime < MaxMtime
    /\ monitor' = [monitor EXCEPT !.ws = ws, !.mtime = monitor.mtime + 1]
    /\ call' = [op |-> "save"]
    /\ result' = "ok"
    /\ UNCHANGED <<tables, group_pk_caches, global_pk_cache, all_pk_pool, clean, caches,
                   output, threads>>

\* one round of the loop that finds current_mtime > last_mtime (any other round
\* changes nothing): sync_excel_to_yaml, then last_mtime = current_mtime, or one
\* of the exception handlers
MonitorPoll ==
    LET r == Reconcile(MonitoredTable, ReadSheet[MonitoredTable][monitor.ws], tables,
                       Cache)
    IN  /\ monitor.alive /\ monitor.exists
        /\ monitor.mtime > monitor.last_mtime
        /\ tables' = r.tables
        /\ SetCache(r.cache)
        /\ call' = [op |-> "sync_excel_to_yaml", mtime |-> monitor.mtime]
        /\ result' = r.result
        /\ clean' = (clean /\ r.result # "conflict")
        /\ monitor' =
              IF r.result = "ok"
              THEN [monitor EXCEPT !.last_mtime = monitor.mtime,
                                   !.attempted = monitor.mtime]
              ELSE AfterSyncRaised([monitor EXCEPT !.attempted = monitor.mtime])
        /\ UNCHANGED <<caches, output, threads>>

NextMonitor ==
    \/ OpenTable
    \/ \E ws \in Sheets[MonitoredTable] : SaveWorkbook(ws)
    \/ MonitorPoll

SpecMonitor == Init /\ [][NextMonitor]_vars

(***************************************************************************)
(* utils/sync.py: sync_excel_to_all_yaml, the workbook of a whole group     *)
(***************************************************************************)
\* the table whose file is <config dir>/group/name.yaml, if that file exists
TableOfSheet(group, name) ==
    {t \in TableIds : group_name(t) = group /\ table_name(t) = name}

\* a variant that catches the exception of a sheet and goes on with the next one
RECURSIVE SyncAllFrom_SkipFailed(_, _, _, _, _)
SyncAllFrom_SkipFailed(wb, group, i, tbls, c) ==
    IF i > Len(wb)
    THEN [raised_at |-> 0, result |-> "ok", tables |-> tbls, cache |-> c]
    ELSE LET found == TableOfSheet(group, wb[i].name) IN
         IF found = {}
         THEN SyncAllFrom_SkipFailed(wb, group, i + 1, tbls, c)
         ELSE LET t == CHOOSE u \in found : TRUE
                  r == Reconcile(t, ReadSheet[t][wb[i].ws], tbls, c)
              IN  SyncAllFrom_SkipFailed(wb, group, i + 1, r.tables, r.cache)

\* the loop over wb.sheetnames from sheet i on: a sheet without a table file is
\* skipped, an exception of sync_excel_to_yaml_internal leaves the loop
RECURSIVE SyncAllFrom(_, _, _, _, _)
SyncAllFrom(wb, group, i, tbls, c) ==
    IF i > Len(wb)
    THEN [raised_at |-> 0, result |-> "ok", tables |-> tbls, cache |-> c]
    ELSE LET found == TableOfSheet(group, wb[i].name) IN
         IF found = {}
         THEN SyncAllFrom(wb, group, i + 1, tbls, c)
         ELSE LET t == CHOOSE u \in found : TRUE
                  r == Reconcile(t, ReadSheet[t][wb[i].ws], tbls, c)
              IN  IF r.result # "ok"
                  THEN [raised_at |-> i, result |-> r.result,
                        tables |-> r.tables, cache |-> r.cache]
                  ELSE SyncAllFrom(wb, group, i + 1, r.tables, r.cache)

sync_excel_to_all_yaml(wb, group, tbls, c) == SyncAllFrom(wb, group, 1, tbls, c)

\* the group whose workbook is open, and the sheets the workbook may hold: those of
\* its tables C and D, of at most MaxAllRows data rows, and a sheet named after
\* table B of the other group
MaxAllRows == 1
AllGroup == "g1"
NamedSheets ==
    UNION {{[name |-> table_name(t), ws |-> ws] :
               ws \in {w \in Sheets[t] : Len(w.rows) <= MaxAllRows}} : t \in {"C", "D"}}
        \cup {[name |-> table_name("B"), ws |-> ws] :
                 ws \in {w \in Sheets["B"] : Len(w.rows) = 0}}
Workbooks ==
    {<<s>> : s \in NamedSheets}
        \cup {w \in {<<s1, s2>> : s1 \in NamedSheets, s2 \in NamedSheets} :
                 w[1].name # w[2].name}

\* _monitor_group_file sees the saved workbook wb and calls sync_excel_to_all_yaml
SyncAllCall(wb) ==
    LET r == sync_excel_to_all_yaml(wb, AllGroup, tables, Cache) IN
    /\ tables' = r.tables
    /\ SetCache(r.cache)
    /\ call' = [op |-> "sync_excel_to_all_yaml", wb |-> wb, group_name |-> AllGroup,
                raised_at |-> r.raised_at]
    /\ result' = r.result
    /\ clean' = (clean /\ r.result # "conflict")
    /\ UNCHANGED <<caches, env>>

NextAll == \E wb \in Workbooks : SyncAllCall(wb)

SpecAll == Init /\ [][NextAll]_vars

(***************************************************************************)
(* Properties                                                              *)
(***************************************************************************)
\* the primary keys table t stores
StoredPks(t) == PkSet(tables[t], columns(t)[1].name)

\* how the reconciliation of worksheet ws into table t would end in this state
SyncOf(t, ws) == Reconcile(t, ReadSheet[t][ws], tables, Cache)

\* the data rows of a worksheet that have some non-empty cell
NonEmptyRows(ws) ==
    SelectSeq(ws.rows, LAMBDA r : \E i \in 1..Len(r) : ~IsEmptyCell(r[i]))

\* the pk -> owner entries of the three mappings agree
SameKeys(c1, c2) ==
    /\ c1.global_pk_cache = c2.global_pk_cache
    /\ c1.all_pk_pool = c2.all_pk_pool
    /\ \A g \in Groups : Get(c1.group_pk_caches, g, EmptyDict)
                            = Get(c2.group_pk_caches, g, EmptyDict)

\* C1: from empty tables and an empty cache, as long as no reconciliation failed with
\* a key conflict, a key stored by a GLOBAL table is stored by no other table, and no
\* two tables of one group store the same key.
C1_ScopedUniqueness ==
    clean =>
        \A t, u \in TableIds :
            (t # u /\ (key_type(t) = GLOBAL \/ group_name(t) = group_name(u)))
                => StoredPks(t) \cap StoredPks(u) = {}

\* C2: the stored rows of a table never hold two rows with the same primary key,
\* auto-filled keys included.
C2_NoDuplicateStoredPk ==
    \A t \in TableIds : \A i, j \in 1..Len(tables[t]) :
        i # j => tables[t][i][columns(t)[1].name] # tables[t][j][columns(t)[1].name]

C2_Witness ==
    /\ result = "ok"
    /\ Len(tables["A"]) = 2
    /\ tables["A"][2]["id"] = IntV(MaxPk + 1)

\* C3: a worksheet whose keys, after coercion and auto-fill, hold some value twice is
\* rejected with the duplicate error, and the call changes neither the stored tables
\* nor the cache.
C3_DuplicateRejected ==
    \A t \in OpenTables : \A ws \in Sheets[t] :
        LET read == ReadSheet[t][ws]
            pks == [i \in 1..Len(read.new_datas) |-> read.new_datas[i][columns(t)[1].name]]
            r == SyncOf(t, ws)
        IN  (~read.raised /\ \E i, j \in 1..Len(pks) : i < j /\ pks[i] = pks[j])
                => (r.result = "duplicate" /\ r.tables = tables /\ r.cache = Cache)

C3_Witness ==
    /\ result = "duplicate"
    /\ tables["A"] # << >>
    /\ all_pk_pool # EmptyDict

\* what a non-empty cell of an int column is stored as
AsStored(cell) == IF cell.kind = "int" THEN cell ELSE IntV(IntOfStr(cell.s))

\* C4: a successful reconciliation stores exactly the non-empty rows of the
\* worksheet, in worksheet order (an empty key cell stored as the filled key, any
\* other empty cell as None), and touches no other table.
C4_RowsReplacedInOrder ==
    \A t \in OpenTables : \A ws \in Sheets[t] :
        LET r == SyncOf(t, ws)
            kept == NonEmptyRows(ws)
            new == r.tables[t]
        IN  r.result = "ok" =>
              /\ Len(new) = Len(kept)
              /\ \A i \in 1..Len(kept) : \A c \in 1..Len(columns(t)) :
                    IF IsEmptyCell(kept[i][c])
                    THEN IF c = 1 THEN new[i][columns(t)[c].name].kind = "int"
                                  ELSE new[i][columns(t)[c].name] = None
                    ELSE new[i][columns(t)[c].name] = AsStored(kept[i][c])
              /\ \A u \in TableIds \ {t} : r.tables[u] = tables[u]

C4_Witness ==
    /\ result = "ok"
    /\ call.op = "apply_pk_diff" /\ call.table_name = "tA" /\ call.remove_list # {}
    /\ Len(tables["A"]) = 2
    /\ tables["A"][1]["id"].v > tables["A"][2]["id"].v

\* C5: after a successful reconciliation of a table of group g, the keys that were
\* stored and are no longer edited are absent from the group's mapping, and the
\* edited keys that were not stored are present in it.
C5_DiffAppliedToGroup ==
    \A t \in OpenTables : \A ws \in Sheets[t] :
        LET r == SyncOf(t, ws)
            old == StoredPks(t)
            edited == PkSet(r.tables[t], columns(t)[1].name)
            occupancy == DOMAIN r.cache.group_pk_caches[group_name(t)]
        IN  r.result = "ok" =>
              /\ \A k \in old \ edited : k \notin occupancy
              /\ \A k \in edited \ old : k \in occupancy

C5_Witness ==
    /\ result = "ok"
    /\ call.op = "apply_pk_diff" /\ call.remove_list # {} /\ call.add_lists # {}

\* C6: reconciling the worksheet that holds exactly the stored rows of a table
\* succeeds, adds and removes no key of any mapping and leaves the stored rows as
\* they are.
C6_ReconcileSameRowsIsNoOp ==
    \A t \in OpenTables :
        LET r == sync_excel_to_yaml_internal(t, AsSheet(t), tables, Cache)
        IN  /\ r.result = "ok"
            /\ r.tables = tables
            /\ SameKeys(r.cache, Cache)

C6_Witness ==
    /\ result = "ok"
    /\ call.op = "apply_pk_diff" /\ call.table_name = "tA"
    /\ call.remove_list = {} /\ call.add_lists = {}
    /\ Len(tables["A"]) = 2
    /\ ~clean

\* C7: a reconciliation that gets past coercion has skipped the rows without a
\* non-empty cell, and has given each kept row with an empty key cell the key 1 when
\* it is the first kept row and the key of the kept row before it plus 1 otherwise.
C7_AutoFill ==
    \A t \in OpenTables : \A ws \in Sheets[t] :
        LET new_datas == ReadSheet[t][ws].new_datas
            kept == NonEmptyRows(ws)
            id == columns(t)[1].name
        IN  SyncOf(t, ws).result # "coercion" =>
              /\ Len(new_datas) = Len(kept)
              /\ \A i \in 1..Len(kept) :
                    IsEmptyCell(kept[i][1]) =>
                        new_datas[i][id] =
                            IF i = 1 THEN IntV(1)
                            ELSE IntV(new_datas[i - 1][id].v + 1)

C7_Witness ==
    /\ result = "ok"
    /\ call.op = "apply_pk_diff" /\ (MaxPk + 1) \in call.add_lists
    /\ Len(tables["A"]) = 2
    /\ tables["A"][1]["id"] = IntV(MaxPk)
    /\ tables["A"][2] = [id |-> IntV(MaxPk + 1), val |-> IntV(7)]

\* C8: a reconciliation that ends in a coercion error, a duplicate error or a key
\* conflict leaves the stored rows of every table as they were.
C8_FailureWritesNothing ==
    [][result' \in {"coercion", "duplicate", "conflict"} => tables' = tables]_vars

C8_Witness ==
    /\ result = "conflict"
    /\ call.op = "apply_pk_diff" /\ call.table_name = "tA" /\ call.remove_list # {}
    /\ tables["A"] # << >>

\* C9: a validate_primary_key call for a key that group_pk_caches[group] holds
\* raises, whichever table holds it and whatever the scope of the call.
C9_GroupOccupantConflicts ==
    [][(/\ call'.op = "validate_primary_key"
        /\ call'.group_name \in DOMAIN group_pk_caches
        /\ call'.pk_value \in DOMAIN group_pk_caches[call'.group_name])
            => result' = "conflict"]_vars

C9_Witness ==
    /\ call.op = "validate_primary_key" /\ result = "conflict"
    /\ call.key_type # GLOBAL
    /\ call.pk_value \notin DOMAIN global_pk_cache
    /\ call.pk_value \in DOMAIN group_pk_caches[call.group_name]
    /\ group_pk_caches[call.group_name][call.pk_value] # call.table_name

\* C10: a validate_primary_key call for a key that global_pk_cache holds raises, in
\* any group and with any scope.
C10_GlobalKeyBlocksAll ==
    [][(/\ call'.op = "validate_primary_key"
        /\ call'.pk_value \in DOMAIN global_pk_cache)
            => result' = "conflict"]_vars

C10_Witness ==
    /\ call.op = "validate_primary_key" /\ result = "conflict"
    /\ call.key_type = GROUP
    /\ call.pk_value \in DOMAIN global_pk_cache
    /\ global_pk_cache[call.pk_value][1] # call.group_name
    /\ call.pk_value \notin DOMAIN group_pk_caches[call.group_name]

\* the keys group g holds in group_pk_caches
GroupKeys(g) == DOMAIN Get(group_pk_caches, g, EmptyDict)

\* C11: a validate_primary_key call with GLOBAL scope raises when some group holds
\* the key in its group mapping, whatever scope it was registered with there.
C11_GlobalConflictsWithAnyGroup ==
    [][(/\ call'.op = "validate_primary_key"
        /\ call'.key_type = GLOBAL
        /\ \E g \in Groups : call'.pk_value \in GroupKeys(g))
            => result' = "conflict"]_vars

\* C12: a validate_primary_key call with GROUP scope, for a key that another group
\* holds, that the group of the call does not hold and that has no entry in
\* global_pk_cache, succeeds, and afterwards both groups hold the key.
C12_GroupKeyFreeInOtherGroup ==
    [][\A g1 \in Groups :
        (/\ call'.op = "validate_primary_key"
         /\ call'.key_type = GROUP
         /\ g1 # call'.group_name
         /\ call'.pk_value \in GroupKeys(g1)
         /\ call'.pk_value \notin GroupKeys(call'.group_name)
         /\ call'.pk_value \notin DOMAIN global_pk_cache)
            => /\ result' = "ok"
               /\ call'.pk_value \in DOMAIN Get(group_pk_caches', g1, EmptyDict)
               /\ call'.pk_value \in
                    DOMAIN Get(group_pk_caches', call'.group_name, EmptyDict)]_vars

C12_Witness ==
    /\ call.op = "validate_primary_key" /\ result = "ok" /\ call.key_type = GROUP
    /\ \E g1 \in Groups \ {call.group_name} : call.pk_value \in GroupKeys(g1)
    /\ call.pk_value \in GroupKeys(call.group_name)
    /\ call.pk_value \notin DOMAIN global_pk_cache
    /\ all_pk_pool[call.pk_value] = <<call.group_name, call.table_name>>

\* C13: a validate_primary_key call that succeeds maps the key to the table in the
\* group's mapping and to (group, table) in all_pk_pool, maps it to (group, table) in
\* global_pk_cache when the scope is GLOBAL and leaves it out of global_pk_cache
\* otherwise, and leaves every other key of the three mappings as it was.
C13_RegistrationEffect ==
    [][(call'.op = "validate_primary_key" /\ result' = "ok") =>
        LET g == call'.group_name
            n == call'.table_name
            pk == call'.pk_value
        IN  /\ pk \in DOMAIN group_pk_caches'[g] /\ group_pk_caches'[g][pk] = n
            /\ pk \in DOMAIN all_pk_pool' /\ all_pk_pool'[pk] = <<g, n>>
            /\ (pk \in DOMAIN global_pk_cache') = (call'.key_type = GLOBAL)
            /\ call'.key_type = GLOBAL => global_pk_cache'[pk] = <<g, n>>
            /\ Del(group_pk_caches'[g], pk) = Get(group_pk_caches, g, EmptyDict)
            /\ \A h \in Groups \ {g} :
                    Get(group_pk_caches', h, EmptyDict) = Get(group_pk_caches, h, EmptyDict)
            /\ Del(all_pk_pool', pk) = Del(all_pk_pool, pk)
            /\ Del(global_pk_cache', pk) = global_pk_cache]_vars

C13_Witness ==
    /\ call.op = "validate_primary_key" /\ result = "ok" /\ call.key_type = TABLE
    /\ global_pk_cache # EmptyDict
    /\ call.pk_value \notin DOMAIN global_pk_cache
    /\ \E g \in Groups \ {call.group_name} : GroupKeys(g) # {}

\* C14: after table.validate_all_primary_keys() every primary key of the table's
\* rows is in the mapping of the table's group, and for a GLOBAL table it is in
\* global_pk_cache mapped to (group_name, table_name).
C14_ValidateAllRegisters ==
    call.op = "validate_all_primary_keys" =>
        \A pk \in StoredPks(call.table) :
            /\ pk \in GroupKeys(group_name(call.table))
            /\ key_type(call.table) = GLOBAL =>
                  /\ pk \in DOMAIN global_pk_cache
                  /\ global_pk_cache[pk] = <<group_name(call.table), table_name(call.table)>>

\* table t stores key pk once and no other table whose scope or group collides
\* with t's stores it
NoConflict(t, pk) ==
    /\ Cardinality({i \in 1..Len(tables[t]) : tables[t][i][columns(t)[1].name] = IntV(pk)}) = 1
    /\ \A u \in TableIds \ {t} :
          pk \in StoredPks(u) =>
              /\ group_name(u) # group_name(t)
              /\ key_type(u) # GLOBAL
              /\ key_type(t) # GLOBAL

\* C15: load_all_tables_for_validation does not raise, every stored key without a
\* conflict is registered in its group's mapping when it returns, and when no stored
\* key has a conflict the returned list is empty.
C15_RebuildRegistersAndReports ==
    call.op = "load_all_tables_for_validation" =>
        /\ result = "ok"
        /\ \A t \in TableIds : \A pk \in StoredPks(t) :
              NoConflict(t, pk) => pk \in GroupKeys(group_name(t))
        /\ (\A t \in TableIds : \A pk \in StoredPks(t) : NoConflict(t, pk))
              => call.conflicts = << >>

\* C16: when load_table has returned a table, or save_table has written one, the
\* primary keys of the table's rows are registered in the cache.
C16_LoadSaveUpdateCache ==
    call.op \in {"load_table", "save_table"} =>
        \A pk \in StoredPks(call.table) :
            /\ pk \in GroupKeys(group_name(call.table))
            /\ pk \in DOMAIN all_pk_pool

\* the position of column name n in row 1 of worksheet ws, 0 when it is not there
HeaderPos(ws, n) ==
    IF \E j \in 1..Len(ws.header) : ws.header[j] = n
    THEN CHOOSE j \in 1..Len(ws.header) : ws.header[j] = n
    ELSE 0

\* C17: after a successful reconciliation each stored row holds, for every schema
\* column, the cell under the header of that name coerced with that column's type
\* (the filled key for an empty key cell), None when no header has that name, and
\* nothing under a header name that is not a schema column.
C17_ColumnsMatchedByName ==
    (call.op = "sync_excel_to_yaml_internal" /\ result = "ok") =>
        LET ws == call.ws
            kept == NonEmptyRows(ws)
            schema == columns("E")
        IN  /\ Len(tables["E"]) = Len(kept)
            /\ \A i \in 1..Len(kept) :
                  /\ DOMAIN tables["E"][i] \subseteq {schema[c].name : c \in 1..Len(schema)}
                  /\ \A c \in 1..Len(schema) :
                        LET j == HeaderPos(ws, schema[c].name)
                            stored == Get(tables["E"][i], schema[c].name, None)
                        IN  IF j = 0 \/ IsEmptyCell(kept[i][j])
                            THEN IF c = 1 THEN stored.kind = "int" ELSE stored = None
                            ELSE stored = validate_value(schema[c], kept[i][j]).value

\* the documented plaintext layout: T of "List<T>", K and V of "Dictionary<K,V>"
DocElementType(type) == SubSeq(type, Len(TListPrefix) + 2, Len(type) - 1)
DocKeyValueTypes(type) == Split(SubSeq(type, Len(TDictPrefix) + 2, Len(type) - 1))

\* the documented encoding of a value of a declared type: a presence flag, then
\* the typed encoding (FlagElements: whether list elements carry a flag as well)
RECURSIVE DocValue(_, _, _)
DocValue(value, type, FlagElements) ==
    LET RECURSIVE Items(_, _)
        Items(items, T) ==
            IF items = << >> THEN << >>
            ELSE LET e == DocValue(Head(items), T, FlagElements)
                 IN  (IF FlagElements THEN e ELSE Tail(e)) \o Items(Tail(items), T)
        RECURSIVE Pairs(_, _)
        Pairs(items, KV) ==
            IF items = << >> THEN << >>
            ELSE DocValue(Head(items)[1], KV[1], FlagElements)
                    \o DocValue(Head(items)[2], KV[2], FlagElements)
                    \o Pairs(Tail(items), KV)
    IN  IF value = None THEN <<0>>
        ELSE <<1>> \o
             (CASE type = TInt -> pack_i(value.v)
                [] type = TBool -> <<IF value.b THEN 1 ELSE 0>>
                [] type = TString -> pack_I(Len(encode_utf8(value.s))) \o encode_utf8(value.s)
                [] StartsWith(type, TListPrefix) ->
                       pack_I(Len(value.items)) \o Items(value.items, DocElementType(type))
                [] StartsWith(type, TDictPrefix) ->
                       pack_I(Len(value.items)) \o Pairs(value.items, DocKeyValueTypes(type)))

\* the documented plaintext of a table: row count, then per row and per column in
\* schema order the encoding of the field
DocPlaintext(cols, data) ==
    LET RECURSIVE Row(_, _)
        Row(row, cs) ==
            IF cs = << >> THEN << >>
            ELSE DocValue(Get(row, Head(cs).name, None), Head(cs).type, TRUE)
                    \o Row(row, Tail(cs))
        RECURSIVE Rows(_)
        Rows(d) == IF d = << >> THEN << >> ELSE Row(Head(d), cols) \o Rows(Tail(d))
    IN  pack_I(Len(data)) \o Rows(data)

\* a reader that follows the documented layout: the rows whose documented plaintext
\* the bytes are; malformed when the bytes are the plaintext of no rows
DocRead(plaintext, type) ==
    IF \E data \in ExportRows(type) : DocPlaintext(ExportColumns(type), data) = plaintext
    THEN [malformed |-> FALSE,
          rows |-> CHOOSE data \in ExportRows(type) :
                      DocPlaintext(ExportColumns(type), data) = plaintext]
    ELSE [malformed |-> TRUE, rows |-> << >>]

\* C18: reading the plaintext of _serialize_table by the documented layout gives
\* back the rows of the table, equal in every column, None fields included.
C18_CodecRoundTrip ==
    call.op = "_serialize_table" =>
        LET read == DocRead(call.plaintext, call.columns[2].type)
            rows == read.rows
        IN  /\ ~read.malformed
            /\ Len(rows) = Len(call.data)
            /\ \A i \in 1..Len(call.data) : \A c \in 1..Len(call.columns) :
                  rows[i][call.columns[c].name] = call.data[i][call.columns[c].name]

\* C19: a present value of a List<T> column is written as the flag, the 4-byte
\* count and then each element in the typed encoding of T (with or without a
\* presence flag of its own): the elements of a List<int> as 4-byte little-endian
\* signed integers.
C19_ListElementsTyped ==
    (/\ call.op = "_write_value"
     /\ StartsWith(call.value_type, TListPrefix)
     /\ call.value # None)
        => \/ call.buffer = DocValue(call.value, call.value_type, FALSE)
           \/ call.buffer = DocValue(call.value, call.value_type, TRUE)

\* no table stores a key twice, a key of a GLOBAL table is stored by no other table,
\* and a key of a GROUP table is stored by no other table of its group
KeyLevelsHold ==
    /\ \A t \in TableIds : \A i, j \in 1..Len(tables[t]) :
          (i # j /\ tables[t][i][columns(t)[1].name] # None)
              => tables[t][i][columns(t)[1].name] # tables[t][j][columns(t)[1].name]
    /\ \A t, u \in TableIds :
          (/\ t # u
           /\ \/ key_type(t) = GLOBAL
              \/ key_type(t) = GROUP /\ group_name(t) = group_name(u))
              => StoredPks(t) \cap StoredPks(u) = {}

\* C20: after every add_row call the stored rows of all tables keep each table's
\* key unique at the level of its key_type, and an add_row that raised has left
\* the rows of the table as they were.
C20_AddRowEnforcesKeyType ==
    [][call'.op = "add_row" =>
          /\ KeyLevelsHold'
          /\ result' # "ok" => tables' = tables]_vars

\* C22: every key that some group's mapping holds is in all_pk_pool.
C22_GroupKeysInAllPool ==
    \A g \in Groups : \A pk \in GroupKeys(g) : pk \in DOMAIN all_pk_pool

\* C28: a validate_primary_key call that raises leaves the keys of the three
\* mappings and the owner of every key as they were.
C28_ConflictChangesNothing ==
    [][(call'.op = "validate_primary_key" /\ result' = "conflict") =>
          /\ global_pk_cache' = global_pk_cache
          /\ all_pk_pool' = all_pk_pool
          /\ \A g \in Groups :
                Get(group_pk_caches', g, EmptyDict) = Get(group_pk_caches, g, EmptyDict)]_vars

C28_Witness ==
    /\ call.op = "validate_primary_key" /\ result = "conflict"
    /\ call.key_type = GLOBAL
    /\ call.pk_value \notin GroupKeys(call.group_name)
    /\ call.pk_value \notin DOMAIN global_pk_cache
    /\ call.pk_value \in DOMAIN all_pk_pool
    /\ all_pk_pool[call.pk_value] # <<call.group_name, call.table_name>>

C24_RemovalIgnoresScope ==
    [][(call'.op = "apply_pk_diff" /\ call'.add_lists = {}) =>
        \A k \in call'.remove_list :
            /\ k \notin DOMAIN Get(group_pk_caches', call'.group_name, EmptyDict)
            /\ k \notin DOMAIN all_pk_pool'
            /\ k \notin DOMAIN global_pk_cache']_vars

\* C25: an apply_pk_diff call whose removed set and added set are the same keys,
\* all held by the table of the call and registered with the scope of the call,
\* succeeds and leaves the keys registered for the table.
C25_RemoveBeforeAdd ==
    [][(/\ call'.op = "apply_pk_diff"
        /\ call'.add_lists # {}
        /\ call'.add_lists = call'.remove_list
        /\ \A k \in call'.add_lists :
              /\ k \in GroupKeys(call'.group_name)
              /\ group_pk_caches[call'.group_name][k] = call'.table_name
              /\ IF call'.key_type = GLOBAL
                 THEN /\ k \in DOMAIN global_pk_cache
                      /\ global_pk_cache[k] = <<call'.group_name, call'.table_name>>
                 ELSE k \notin DOMAIN global_pk_cache)
            => /\ result' = "ok"
               /\ \A k \in call'.add_lists :
                     /\ k \in DOMAIN Get(group_pk_caches', call'.group_name, EmptyDict)
                     /\ Get(group_pk_caches', call'.group_name, EmptyDict)[k] = call'.table_name]_vars

C25_Witness ==
    /\ call.op = "apply_pk_diff" /\ result = "ok"
    /\ call.key_type = GLOBAL
    /\ call.add_lists = PkValues /\ call.remove_list = PkValues
    /\ \A k \in PkValues :
          /\ k \in DOMAIN global_pk_cache
          /\ global_pk_cache[k] = <<call.group_name, call.table_name>>
    /\ \E g \in Groups \ {call.group_name} : GroupKeys(g) # {}

\* C27: from empty tables and an empty cache, as long as no reconciliation failed
\* with a key conflict, the mapping of each group holds exactly the keys that the
\* tables of the group store, each mapped to the table that stores it, and
\* global_pk_cache holds exactly the keys that GLOBAL tables store.
C27_CacheMirrorsTables ==
    clean =>
        /\ \A g \in Groups :
              /\ GroupKeys(g) = UNION {StoredPks(t) : t \in {u \in TableIds : group_name(u) = g}}
              /\ \A t \in TableIds : \A k \in StoredPks(t) :
                    group_name(t) = g => group_pk_caches[g][k] = table_name(t)
        /\ DOMAIN global_pk_cache =
              UNION {StoredPks(t) : t \in {u \in TableIds : key_type(u) = GLOBAL}}

C27_Witness ==
    /\ clean /\ result = "ok"
    /\ call.op = "apply_pk_diff" /\ call.remove_list # {}
    /\ StoredPks("C") # {} /\ StoredPks("B") # {}

\* C29: sync_excel_to_all_yaml reconciles the sheets in workbook order without
\* rollback: when the reconciliation of a sheet raises, the tables of the earlier
\* sheets hold their new rows and the tables of the failing and the later sheets
\* keep their rows; a sheet without a table file in the group is skipped, it never
\* is the sheet that raises, and it changes no table.
C29_SheetsInOrderNoRollback ==
    [][call'.op = "sync_excel_to_all_yaml" =>
        LET wb == call'.wb
            f == call'.raised_at
            named == UNION {TableOfSheet(AllGroup, wb[i].name) : i \in 1..Len(wb)}
        IN  /\ \A i \in 1..Len(wb) :
                  LET found == TableOfSheet(AllGroup, wb[i].name) IN
                  /\ found = {} => f # i
                  /\ \A t \in found :
                        IF f = 0 \/ i < f
                        THEN tables'[t] = ReadSheet[t][wb[i].ws].new_datas
                        ELSE tables'[t] = tables[t]
            /\ \A t \in TableIds \ named : tables'[t] = tables[t]
            /\ (f = 0) = (result' = "ok")]_vars

C29_Witness ==
    /\ call.op = "sync_excel_to_all_yaml"
    /\ Len(call.wb) = 2 /\ call.raised_at = 2 /\ result = "conflict"
    /\ \E t \in TableOfSheet(AllGroup, call.wb[1].name) :
          /\ tables[t] # << >>
          /\ tables[t] = ReadSheet[t][call.wb[1].ws].new_datas
    /\ \E t \in TableOfSheet(AllGroup, call.wb[2].name) :
          tables[t] # ReadSheet[t][call.wb[2].ws].new_datas

\* the four bytes of hi * 65536 + lo in little-endian two's complement
TwosComplementLE(hi, lo) ==
    LET h == IF hi < 0 THEN hi + 65536 ELSE hi
    IN  <<lo % 256, lo \div 256, h % 256, h \div 256>>

\* flag byte and value bytes that the layout gives an int column
RECURSIVE ExpectedRows(_)
ExpectedRows(data) ==
    IF data = << >> THEN << >>
    ELSE LET x == Head(data).x
         IN  <<1, 1, 0, 0, 0>>
                \o (IF x = None THEN <<0>> ELSE <<1>> \o TwosComplementLE(x.hi, x.lo))
                \o ExpectedRows(Tail(data))

\* C30: export_table writes a present int in [-2^31, 2^31 - 1] as exactly its four
\* bytes in little-endian two's complement; when an int of the table is outside
\* that range the call raises before it opens the output file, which keeps what
\* it held, and no wrapped or truncated value is written.
C30_IntRangeOrRaise ==
    [][call'.op = "export_table" =>
        LET data == call'.data
            outside == \E i \in 1..Len(data) :
                          /\ data[i].x # None
                          /\ (data[i].x.hi < -32768 \/ data[i].x.hi > 32767)
        IN  IF outside
            THEN /\ result' = "struct.error"
                 /\ ~call'.opened
                 /\ output' = output
            ELSE /\ result' = "ok"
                 /\ call'.opened
                 /\ output'.magic = "SHET"
                 /\ \E pad \in 1..16 :
                       output'.data.padded
                          = <<Len(data), 0, 0, 0>> \o ExpectedRows(data) \o Repeat(pad, pad)]_vars

C30_Witness ==
    /\ call.op = "export_table" /\ result = "struct.error"
    /\ \E i \in 1..Len(call.data) : call.data[i].x = IntW(32768, 0)
    /\ output # None
    /\ output.data.padded
          = <<1, 0, 0, 0,  1, 1, 0, 0, 0,  1, 0, 0, 0, 128>> \o Repeat(2, 2)

\* C26: the cache mutations of monitor threads exclude each other: between the checks
\* of validate_primary_key in one thread and its registrations no other thread
\* changes the cache, so a key that passed the checks is still free when it is
\* registered, and two threads never both pass the checks for the same key.
C26_CheckAndRegisterExclusive ==
    /\ \A t \in ThreadTables :
          threads[t].pc = "checked" =>
              ~PkConflict(Cache, group_name(t), threads[t].pk_value, key_type(t))
    /\ \A t1, t2 \in ThreadTables :
          (t1 # t2 /\ threads[t1].pc = "checked" /\ threads[t2].pc = "checked")
              => threads[t1].pk_value # threads[t2].pk_value

\* C21: every modification of the opened temporary workbook is eventually followed
\* by a sync attempt, also a save that corrects the file after a failed sync.  Only
\* the monitor thread syncs, so a saved version that no sync was attempted for has
\* a running monitor thread that has not seen it yet.
C21_SavedWorkbookIsMonitored ==
    (monitor.exists /\ monitor.mtime > monitor.attempted)
        => (monitor.alive /\ monitor.last_mtime < monitor.mtime)

====
